---------------------------- MODULE Spec2Model ----------------------------
(***************************************************************************)
(* Outbox (packages/runtime/container-runtime/src/opLifecycle/outbox.ts):  *)
(* the outbound batching layer.  Ops are pushed into one of two            *)
(* BatchManagers, popped at flush points, optionally compressed and split, *)
(* handed to the transport and recorded in the PendingStateManager.        *)
(*                                                                         *)
(* The variable log holds the calls the last Outbox call made on its       *)
(* collaborators, in program order: popBatch (of a non-empty batch),       *)
(* compressBatch, splitCompressedBatch, shouldSend, submitBatchFn,         *)
(* submitFn, deltaManager.flush and onSubmitMessage.  The variable ledger  *)
(* is what the PendingStateManager has been given since construction.      *)
(*                                                                         *)
(* Spec is the Outbox given any sequence of submit, submitAttach and       *)
(* flush calls.  SpecOrder is the Outbox without compression, with the     *)
(* class of every op and everything handed to the transport kept as well.  *)
(* SpecReentry adds a flush() whose transport callback calls submit or     *)
(* submitAttach.  SpecPush is a BatchManager on its own.                   *)
(***************************************************************************)
EXTENDS Integers, Sequences, FiniteSets, TLC

\* ------------------------------------------------------------------ bounds
\* Number of ops the caller creates in one run.
MaxOps == 3

\* Number.POSITIVE_INFINITY: larger than every size the bounds can produce.
Infinity == 1000000

\* Outbox.defaultAttachFlowSoftLimitInBytes
defaultAttachFlowSoftLimitInBytes == 64 * 1024

\* Values of contents.length of an op: below and above the ceiling.
OpSizes == {1, 3}
\* Values of config.compressionOptions.minimumBatchSizeInBytes: every batch
\* qualifies, a threshold above the ceiling, and compression disabled.
MinimumBatchSizes == {0, 4, Infinity}
\* Values of config.maxBatchSizeInBytes.
MaxBatchSizes == {2}
\* contentSizeInBytes the compressor may report for its output.
CompressedSizes == {1, 3}

VARIABLES
    params,           \* IOutboxParameters: config, splitter and transport capabilities
    attachFlowBatch,  \* BatchManager of attach ops
    mainBatch,        \* BatchManager of main ops
    log,              \* calls the last Outbox call made on the collaborators, in order
    call,             \* the last call made on the Outbox and how it ended
    ledger,           \* localOpMetadata of every onSubmitMessage call so far, in order
    accepted,         \* ids of the ops whose submit or submitAttach returned normally
    attached,         \* SpecOrder: ids of the ops given to submitAttach so far
    wire,             \* SpecOrder: op ids of every message handed to the transport
                      \* so far, in order
    nextId            \* number of ops created so far

vars == <<params, attachFlowBatch, mainBatch, log, call, ledger, accepted, attached,
          wire, nextId>>

\* ------------------------------------------------------------ BatchMessage
\* A BatchMessage created by the caller.  contents is modelled by what it is
\* (the raw payload of op id) and its length; localOpMetadata is the opaque
\* value identifying the op to the caller.
BatchMessage(id, size, md) ==
    [ contents |-> [form |-> "raw", of |-> <<id>>, length |-> size],
      deserializedContent |->
          [type |-> "op", contents |-> [form |-> "raw", of |-> <<id>>, length |-> size]],
      metadata |-> md,
      compression |-> "none",
      localOpMetadata |-> id,
      referenceSequenceNumber |-> id ]

\* message.contents?.length ?? 0
ContentLength(message) == message.contents.length

RECURSIVE SumLengths(_)
SumLengths(content) ==
    IF content = <<>> THEN 0
    ELSE ContentLength(Head(content)) + SumLengths(Tail(content))

\* ------------------------------------------------------------ BatchManager
BatchManager(options) ==
    [ pendingBatch |-> <<>>, batchContentSize |-> 0, options |-> options ]

BM_length(bm) == Len(bm.pendingBatch)

BM_contentSizeInBytes(bm) == bm.batchContentSize

\* push succeeds unless adding the message would exceed hardLimit.
BM_canPush_SoftLimit(bm, message) ==
    /\ bm.batchContentSize + ContentLength(message) <= bm.options.hardLimit
    /\ \/ bm.pendingBatch = <<>>
       \/ bm.batchContentSize + ContentLength(message) <= bm.options.softLimit

BM_canPush(bm, message) ==
    bm.batchContentSize + ContentLength(message) <= bm.options.hardLimit

BM_push(bm, message) ==
    IF BM_canPush(bm, message)
    THEN [bm EXCEPT !.pendingBatch = Append(@, message),
                    !.batchContentSize = @ + ContentLength(message)]
    ELSE bm

\* The IBatch popBatch returns.
BM_popBatch(bm) ==
    [ content |-> bm.pendingBatch, contentSizeInBytes |-> bm.batchContentSize ]

\* The manager after popBatch.
BM_afterPop(bm) ==
    [bm EXCEPT !.pendingBatch = <<>>, !.batchContentSize = 0]

\* ------------------------------------------------- Compressor and Splitter
\* OpCompressor.compressBatch: a new batch of as many messages, the first
\* carrying the packed payload of the whole batch, reported size c.
Compressor_compressBatch(batch, c) ==
    [ content |->
          [ i \in 1..Len(batch.content) |->
              LET m == batch.content[i]
                  packed == [ form |-> "packed",
                              of |-> [j \in 1..Len(batch.content) |->
                                          batch.content[j].localOpMetadata],
                              length |-> IF i = 1 THEN c ELSE 0 ]
              IN [ m EXCEPT !.contents = packed,
                            !.deserializedContent = [type |-> "op", contents |-> packed],
                            !.compression = IF i = 1 THEN "lz4" ELSE "none" ] ],
      contentSizeInBytes |-> c ]

\* OpSplitter.splitCompressedBatch: a batch of chunk ops within the ceiling.
Splitter_splitCompressedBatch(batch, ceiling) ==
    LET chunk == [ form |-> "chunk",
                   of |-> batch.content[1].contents.of,
                   length |-> ceiling ]
    IN [ content |->
             << [ contents |-> chunk,
                  deserializedContent |-> [type |-> "chunkedOp", contents |-> chunk],
                  metadata |-> {},
                  compression |-> "none",
                  localOpMetadata |-> 0,
                  referenceSequenceNumber |-> batch.content[1].referenceSequenceNumber ] >>,
         contentSizeInBytes |-> ceiling ]

\* ------------------------------------------------------------------ errors
NoError == [ name |-> "none" ]

\* ------------------------------------------------------------------ Outbox
\* constructor: the limits of the two managers.
isCompressionEnabled(p) ==
    p.config.compressionOptions.minimumBatchSizeInBytes # Infinity

hardLimit_Unbounded(p) == Infinity

hardLimit(p) ==
    IF isCompressionEnabled(p) THEN Infinity ELSE p.config.maxBatchSizeInBytes

softLimit(p) ==
    IF isCompressionEnabled(p) THEN Infinity ELSE defaultAttachFlowSoftLimitInBytes

\* get isEmpty
isEmpty(o) ==
    BM_length(o.attachFlowBatch) = 0 /\ BM_length(o.mainBatch) = 0

\* compressBatch, its first test: the batch is empty or below the threshold.
\* (config.compressionOptions is never undefined: the constructor reads it.)
skipCompression_AtThreshold(p, batch) ==
    \/ Len(batch.content) = 0
    \/ p.config.compressionOptions.minimumBatchSizeInBytes >= batch.contentSizeInBytes

skipCompression(p, batch) ==
    \/ Len(batch.content) = 0
    \/ p.config.compressionOptions.minimumBatchSizeInBytes > batch.contentSizeInBytes

\* compressBatch, its second test: the compressed batch can be sent as is.
fitsCeiling_Always(p, compressedBatch) == TRUE

fitsCeiling(p, compressedBatch) ==
    compressedBatch.contentSizeInBytes <= p.config.maxBatchSizeInBytes

\* compressBatch, its third test: the splitter takes over.
chunkingEnabled_Never(p) == FALSE

chunkingEnabled(p) == p.splitter.isBatchChunkingEnabled

\* compressBatch, lines 130-148: what becomes of the compressor's output.
compressedOrSplit(p, batch, compressedBatch, compressCall, splitBatch) ==
    IF fitsCeiling(p, compressedBatch)
    THEN [ batch |-> compressedBatch, same |-> FALSE,
           calls |-> <<compressCall>>, error |-> NoError ]
    ELSE IF chunkingEnabled(p)
    THEN [ batch |-> splitBatch, same |-> FALSE,
           calls |-> << compressCall,
                        [ fn |-> "splitCompressedBatch",
                          batch |-> compressedBatch,
                          result |-> splitBatch ] >>,
           error |-> NoError ]
    ELSE [ batch |-> batch, same |-> FALSE, calls |-> <<compressCall>>,
           error |-> [ name |-> "BatchTooLarge",
                       batchSize |-> batch.contentSizeInBytes,
                       compressedBatchSize |-> compressedBatch.contentSizeInBytes,
                       count |-> Len(compressedBatch.content),
                       limit |-> p.config.maxBatchSizeInBytes,
                       chunkingEnabled |-> p.splitter.isBatchChunkingEnabled ] ]

\* compressBatch, line 130: the compressor is called.
compressed(p, batch, compressedBatch) ==
    compressedOrSplit(p, batch, compressedBatch,
        [ fn |-> "compressBatch", batch |-> batch, result |-> compressedBatch ],
        Splitter_splitCompressedBatch(compressedBatch, p.config.maxBatchSizeInBytes))

\* compressBatch(batch): the batch to send, whether it is the very object it
\* was given (same), the collaborator calls made, and the error thrown.
compressBatch(p, batch, c) ==
    IF skipCompression(p, batch)
    THEN [ batch |-> batch, same |-> TRUE, calls |-> <<>>, error |-> NoError ]
    ELSE compressed(p, batch, Compressor_compressBatch(batch, c))

\* Legacy path, one message: the compressed flag is deleted from the message's
\* own metadata object.
StripCompressed_Kept(message) == message

StripCompressed(message) ==
    [ message EXCEPT !.metadata = @ \ {"compressed"} ]

\* Legacy path: the submitFn call made for one (already stripped) message.
SubmitFnCall(message) ==
    [ fn |-> "submitFn", type |-> "op",
      contents |-> message.deserializedContent,
      batch |-> TRUE,
      metadata |-> message.metadata ]

\* Modern path: the submitBatchFn call made for a batch.
SubmitBatchFnCall(content) ==
    [ fn |-> "submitBatchFn",
      batch |-> [ i \in 1..Len(content) |->
                    [ contents |-> content[i].contents,
                      metadata |-> content[i].metadata,
                      compression |-> content[i].compression ] ] ]

\* sendBatch, its early return: nothing to send, or not connected.
skipSend_EmptyOnly(batch, send) == Len(batch.content) = 0

skipSend(batch, send) == Len(batch.content) = 0 \/ ~send

\* sendBatch, lines 165-191, on the messages the legacy path has stripped.
submitted(p, batch, stripped) ==
    IF ~p.containerContext.hasSubmitBatchFn
    THEN [ calls |-> [ i \in 1..Len(stripped) |-> SubmitFnCall(stripped[i]) ]
                     \o << [fn |-> "deltaManager.flush"] >>,
           content |-> stripped ]
    ELSE [ calls |-> << SubmitBatchFnCall(batch.content) >>,
           content |-> batch.content ]

\* sendBatch(batch): the calls made, and the batch's content as sendBatch
\* leaves it (the legacy path mutates the messages it is given).
\* shouldSend() is evaluated only when the batch is not empty.
sendBatch_EmptySent(p, batch, send) ==
    IF Len(batch.content) # 0 /\ ~send
    THEN [ calls |-> << [fn |-> "shouldSend", result |-> send] >>,
           content |-> batch.content ]
    ELSE [ submitted(p, batch,
                     [ i \in 1..Len(batch.content) |-> StripCompressed(batch.content[i]) ])
           EXCEPT !.calls = ( IF Len(batch.content) = 0 THEN <<>>
                              ELSE << [fn |-> "shouldSend", result |-> send] >> ) \o @ ]

sendBatch(p, batch, send) ==
    IF Len(batch.content) = 0
    THEN [ calls |-> <<>>, content |-> batch.content ]
    ELSE IF skipSend(batch, send)
    THEN [ calls |-> << [fn |-> "shouldSend", result |-> send] >>,
           content |-> batch.content ]
    ELSE [ submitted(p, batch,
                     [ i \in 1..Len(batch.content) |-> StripCompressed(batch.content[i]) ])
           EXCEPT !.calls = << [fn |-> "shouldSend", result |-> send] >> \o @ ]

\* persistBatch(batch): one onSubmitMessage call per message.
persistBatch_Reversed(content) ==
    [ i \in 1..Len(content) |->
        [ fn |-> "onSubmitMessage",
          type |-> content[Len(content) + 1 - i].deserializedContent.type,
          referenceSequenceNumber |-> content[Len(content) + 1 - i].referenceSequenceNumber,
          contents |-> content[Len(content) + 1 - i].deserializedContent.contents,
          localOpMetadata |-> content[Len(content) + 1 - i].localOpMetadata,
          metadata |-> content[Len(content) + 1 - i].metadata ] ]

persistBatch(content) ==
    [ i \in 1..Len(content) |->
        [ fn |-> "onSubmitMessage",
          type |-> content[i].deserializedContent.type,
          referenceSequenceNumber |-> content[i].referenceSequenceNumber,
          contents |-> content[i].deserializedContent.contents,
          localOpMetadata |-> content[i].localOpMetadata,
          metadata |-> content[i].metadata ] ]

\* The batch persistBatch is given: rawBatch.content, whose messages are the
\* ones sendBatch was given when compressBatch returned its argument.
RawContentAfterSend_Processed(rawBatch, processed, sent) == sent.content

RawContentAfterSend(rawBatch, processed, sent) ==
    IF processed.same THEN sent.content ELSE rawBatch.content

\* flushInternal, line 117: persistBatch(rawBatch.content) after sendBatch.
persisted(rawBatch, processed, sent) ==
    [ calls |-> processed.calls \o sent.calls
                \o persistBatch(RawContentAfterSend(rawBatch, processed, sent)),
      error |-> NoError ]

\* flushInternal, lines 115-117, given what compressBatch returned or threw.
sendAndPersist(p, rawBatch, send, processed) ==
    IF processed.error # NoError
    THEN [ calls |-> processed.calls, error |-> processed.error ]
    ELSE persisted(rawBatch, processed, sendBatch(p, processed.batch, send))

\* flushInternal(rawBatch): the calls made and the error thrown.
flushInternal(p, rawBatch, send, c) ==
    sendAndPersist(p, rawBatch, send, compressBatch(p, rawBatch, c))

\* The Outbox once manager.popBatch() returned rawBatch and flushInternal
\* returned or threw r.
flushed(o, manager, rawBatch, r) ==
    [ o EXCEPT ![manager] = BM_afterPop(@),
               !.log = @ \o ( IF Len(rawBatch.content) = 0 THEN <<>>
                              ELSE << [ fn |-> "popBatch", manager |-> manager,
                                        batch |-> rawBatch ] >> )
                         \o r.calls,
               !.error = r.error ]

\* this.flushInternal(manager.popBatch()) on the Outbox state o: the named
\* manager is emptied, then flushInternal runs on what it held.
popAndFlush(p, o, manager, send, c) ==
    flushed(o, manager, BM_popBatch(o[manager]),
            flushInternal(p, BM_popBatch(o[manager]), send, c))

\* The BatchTooLarge error submit and submitAttach throw.
PushError(bm, message) ==
    [ name |-> "BatchTooLarge",
      opSize |-> ContentLength(message),
      batchSize |-> BM_contentSizeInBytes(bm),
      count |-> BM_length(bm),
      limit |-> bm.options.hardLimit ]

\* submitAttach, lines 85-92: the push retried on the flushed Outbox f.
retryPush(f, message) ==
    IF f.error # NoError THEN f
    ELSE IF ~BM_canPush(f.attachFlowBatch, message)
    THEN [ f EXCEPT !.error = PushError(f.attachFlowBatch, message) ]
    ELSE [ f EXCEPT !.attachFlowBatch = BM_push(@, message) ]

\* submit(message)
submit_FlushAndRetry(p, o, message) ==
    IF BM_canPush(o.mainBatch, message)
    THEN [ o EXCEPT !.mainBatch = BM_push(@, message) ]
    ELSE [ o EXCEPT !.mainBatch = BM_push(BM_afterPop(@), message),
                    !.log = persistBatch(o.mainBatch.pendingBatch) ]

submit(p, o, message) ==
    IF ~BM_canPush(o.mainBatch, message)
    THEN [ o EXCEPT !.error = PushError(o.mainBatch, message) ]
    ELSE [ o EXCEPT !.mainBatch = BM_push(@, message) ]

\* submitAttach(message), lines 80-93: push, and on failure flush and retry.
submitAttachPush_NoRetry(p, o, message, send, c) ==
    IF BM_canPush(o.attachFlowBatch, message)
    THEN [ o EXCEPT !.attachFlowBatch = BM_push(@, message) ]
    ELSE [ o EXCEPT !.error = PushError(o.attachFlowBatch, message) ]

submitAttachPush(p, o, message, send, c) ==
    IF BM_canPush(o.attachFlowBatch, message)
    THEN [ o EXCEPT !.attachFlowBatch = BM_push(@, message) ]
    ELSE retryPush(popAndFlush(p, o, "attachFlowBatch", send, c), message)

\* submitAttach(message), lines 100-105, on the Outbox the push left.
submitAttachFlush_AboveOnly(p, pushed, send, c) ==
    IF pushed.error # NoError THEN pushed
    ELSE IF BM_contentSizeInBytes(pushed.attachFlowBatch) >
                p.config.compressionOptions.minimumBatchSizeInBytes
    THEN popAndFlush(p, pushed, "attachFlowBatch", send, c)
    ELSE pushed

submitAttachFlush(p, pushed, send, c) ==
    IF pushed.error # NoError THEN pushed
    ELSE IF BM_contentSizeInBytes(pushed.attachFlowBatch) >=
                p.config.compressionOptions.minimumBatchSizeInBytes
    THEN popAndFlush(p, pushed, "attachFlowBatch", send, c)
    ELSE pushed

\* submitAttach(message)
submitAttach(p, o, message, send1, c1, send2, c2) ==
    submitAttachFlush(p, submitAttachPush(p, o, message, send1, c1), send2, c2)

\* flush(), line 110, on the Outbox a the flush of the attach batch left.
flushMain(p, a, send, c) ==
    IF a.error # NoError THEN a
    ELSE popAndFlush(p, a, "mainBatch", send, c)

\* flush()
flush_MainFirst(p, o, send1, c1, send2, c2) ==
    popAndFlush(p, popAndFlush(p, o, "mainBatch", send2, c2),
                "attachFlowBatch", send1, c1)

flush(p, o, send1, c1, send2, c2) ==
    flushMain(p, popAndFlush(p, o, "attachFlowBatch", send1, c1), send2, c2)

\* ----------------------------------------------------------------- reentry
\* A transport callback (submitFn, submitBatchFn or deltaManager.flush) that
\* calls submit or submitAttach before it returns.  The batch being sent was
\* popped before sendBatch began, so the call finds its manager empty.
TransportFns == {"submitBatchFn", "submitFn", "deltaManager.flush"}

\* The Outbox as the callback of the k-th call of flushInternal finds it.
atCallback(o, manager, rawBatch, r, k, fn, message) ==
    [ o EXCEPT ![manager] = BM_afterPop(@),
               !.log = @ \o << [ fn |-> "popBatch", manager |-> manager,
                                 batch |-> rawBatch ] >>
                         \o SubSeq(r.calls, 1, k)
                         \o << [ fn |-> "reentry", call |-> fn, message |-> message ] >> ]

\* The call the callback makes.  The attach batch is empty at that point (it
\* is popped first by flush()), so a retry flush in submitAttach has nothing
\* to send.
reentrantCall(p, s, fn, message, send, c) ==
    IF fn = "submit"
    THEN submit(p, s, message)
    ELSE submitAttach(p, s, message, FALSE, 1, send, c)

\* flushInternal goes on after the callback returned, leaving the Outbox n.
resumed(n, r, k) ==
    IF n.error # NoError THEN n
    ELSE [ n EXCEPT !.log = @ \o << [ fn |-> "return" ] >>
                              \o SubSeq(r.calls, k + 1, Len(r.calls)),
                    !.error = r.error ]

\* flushInternal(rawBatch) with result r, reentered in its k-th call if that
\* is a call on the transport.
reentered(p, o, manager, rawBatch, r, k, fn, message, send, c) ==
    IF k \in DOMAIN r.calls
    THEN IF r.calls[k].fn \in TransportFns
         THEN resumed(reentrantCall(p, atCallback(o, manager, rawBatch, r, k, fn, message),
                                    fn, message, send, c),
                      r, k)
         ELSE flushed(o, manager, rawBatch, r)
    ELSE flushed(o, manager, rawBatch, r)

popAndFlushReentered(p, o, manager, sendO, cO, k, fn, message, send, c) ==
    reentered(p, o, manager, BM_popBatch(o[manager]),
              flushInternal(p, BM_popBatch(o[manager]), sendO, cO),
              k, fn, message, send, c)

\* flush(), line 110, reentered while the main batch is sent.
flushMainReentered(p, a, sendM, cM, k, fn, message, send, c) ==
    IF a.error # NoError THEN a
    ELSE popAndFlushReentered(p, a, "mainBatch", sendM, cM, k, fn, message, send, c)

\* flush(), reentered while the batch of the manager where is sent.
flushReentered(p, o, where, k, fn, message, send, c, sendA, cA, sendM, cM) ==
    IF where = "attachFlowBatch"
    THEN flushMain(p, popAndFlushReentered(p, o, "attachFlowBatch", sendA, cA,
                                           k, fn, message, send, c),
                   sendM, cM)
    ELSE flushMainReentered(p, popAndFlush(p, o, "attachFlowBatch", sendA, cA),
                            sendM, cM, k, fn, message, send, c)

\* ------------------------------------------------------------ the machine
\* The Outbox as a call finds it.
Outbox ==
    [ attachFlowBatch |-> attachFlowBatch, mainBatch |-> mainBatch,
      log |-> <<>>, error |-> NoError ]

\* The call record of a call that took the Outbox from Outbox to o.
CallRecord(fn, args, o) ==
    [ fn |-> fn, args |-> args, error |-> o.error,
      pre |-> [ attachFlowBatch |-> attachFlowBatch, mainBatch |-> mainBatch ] ]

\* PendingStateManager: the localOpMetadata of the onSubmitMessage calls of calls.
RECURSIVE Submitted(_)
Submitted(calls) ==
    IF calls = <<>> THEN <<>>
    ELSE IF Head(calls).fn = "onSubmitMessage"
    THEN <<Head(calls).localOpMetadata>> \o Submitted(Tail(calls))
    ELSE Submitted(Tail(calls))

\* The transport: for each message of the submitFn and submitBatchFn calls
\* of calls, in order, the ids of the ops its payload is made of.
RECURSIVE Transmitted(_)
Transmitted(calls) ==
    IF calls = <<>> THEN <<>>
    ELSE IF Head(calls).fn = "submitFn"
    THEN << Head(calls).contents.contents.of >> \o Transmitted(Tail(calls))
    ELSE IF Head(calls).fn = "submitBatchFn"
    THEN [ k \in DOMAIN Head(calls).batch |-> Head(calls).batch[k].contents.of ]
         \o Transmitted(Tail(calls))
    ELSE Transmitted(Tail(calls))

\* shouldSend() is asked only about a non-empty batch.
SendChoices(batch) ==
    IF Len(batch.content) = 0 THEN {FALSE} ELSE BOOLEAN

\* The compressor is called only on a batch that reaches the threshold.
SizeChoices(batch) ==
    IF skipCompression(params, batch) THEN {1} ELSE CompressedSizes

Init ==
    /\ params \in
         { [ config |-> [ compressionOptions |-> [minimumBatchSizeInBytes |-> min],
                          maxBatchSizeInBytes |-> max ],
             splitter |-> [isBatchChunkingEnabled |-> chunking],
             containerContext |-> [hasSubmitBatchFn |-> modern] ] :
           min \in MinimumBatchSizes, max \in MaxBatchSizes,
           chunking \in BOOLEAN, modern \in BOOLEAN }
    /\ attachFlowBatch =
         BatchManager([hardLimit |-> hardLimit(params), softLimit |-> softLimit(params)])
    /\ mainBatch =
         BatchManager([hardLimit |-> hardLimit(params), softLimit |-> Infinity])
    /\ log = <<>>
    /\ call = [ fn |-> "constructor", args |-> <<>>, error |-> NoError,
                pre |-> [ attachFlowBatch |-> attachFlowBatch, mainBatch |-> mainBatch ] ]
    /\ ledger = <<>>
    /\ accepted = {}
    /\ attached = {}
    /\ wire = <<>>
    /\ nextId = 0

\* The outcome o of a call becomes the new state; an op is accepted when
\* the call that was given it returned normally.
Becomes(fn, args, o) ==
    /\ attachFlowBatch' = o.attachFlowBatch
    /\ mainBatch' = o.mainBatch
    /\ log' = o.log
    /\ ledger' = ledger \o Submitted(o.log)
    /\ call' = CallRecord(fn, args, o)
    /\ accepted' = IF args # <<>> /\ o.error = NoError
                    THEN accepted \cup {args[1].localOpMetadata}
                    ELSE accepted
    /\ params' = params

SubmitCall ==
    /\ nextId < MaxOps
    /\ \E size \in OpSizes, md \in SUBSET {"compressed"} :
         Becomes("submit", << BatchMessage(nextId + 1, size, md) >>,
                 submit(params, Outbox, BatchMessage(nextId + 1, size, md)))
    /\ nextId' = nextId + 1

\* submitAttach, from the Outbox the push left.
SubmitAttachFlush(message, pushed) ==
    \E send2 \in SendChoices(BM_popBatch(pushed.attachFlowBatch)),
       c2 \in SizeChoices(BM_popBatch(pushed.attachFlowBatch)) :
        Becomes("submitAttach", <<message>>,
                submitAttachFlush(params, pushed, send2, c2))

SubmitAttachCall ==
    /\ nextId < MaxOps
    /\ \E size \in OpSizes, md \in SUBSET {"compressed"},
          send1 \in SendChoices(BM_popBatch(attachFlowBatch)),
          c1 \in SizeChoices(BM_popBatch(attachFlowBatch)) :
         SubmitAttachFlush(BatchMessage(nextId + 1, size, md),
                           submitAttachPush(params, Outbox,
                                            BatchMessage(nextId + 1, size, md),
                                            send1, c1))
    /\ nextId' = nextId + 1

FlushCall ==
    /\ \E send1 \in SendChoices(BM_popBatch(attachFlowBatch)),
          c1 \in SizeChoices(BM_popBatch(attachFlowBatch)),
          send2 \in SendChoices(BM_popBatch(mainBatch)),
          c2 \in SizeChoices(BM_popBatch(mainBatch)) :
         Becomes("flush", <<>>, flush(params, Outbox, send1, c1, send2, c2))
    /\ UNCHANGED nextId

\* The calls on an Outbox whose history is kept in ledger and accepted only.
Submit == SubmitCall /\ UNCHANGED << attached, wire >>

SubmitAttach == SubmitAttachCall /\ UNCHANGED << attached, wire >>

Flush == FlushCall /\ UNCHANGED << attached, wire >>

Next == Submit \/ SubmitAttach \/ Flush

Spec == Init /\ [][Next]_vars

\* ------------------------------------------- the machine, transport observed
\* The same calls on an Outbox without compression, with the class of every
\* op and everything the transport was handed kept as well.
Observed ==
    /\ attached' = IF call'.fn = "submitAttach"
                    THEN attached \cup {call'.args[1].localOpMetadata}
                    ELSE attached
    /\ wire' = wire \o Transmitted(log')

InitOrder == Init /\ ~isCompressionEnabled(params)

SubmitObserved == SubmitCall /\ Observed

SubmitAttachObserved == SubmitAttachCall /\ Observed

FlushObserved == FlushCall /\ Observed

NextOrder == SubmitObserved \/ SubmitAttachObserved \/ FlushObserved

SpecOrder == InitOrder /\ [][NextOrder]_vars

\* ----------------------------------------------- the machine, with reentry
\* The Outbox whose transport may call back into it (enableOpReentryCheck is
\* not set).  Calls of the callback that raise are not followed.
\* The outcome o of a flush() reentered by a call given message.
BecomesReentered(message, o) ==
    /\ \E i \in DOMAIN o.log : o.log[i].fn = "return"
    /\ attachFlowBatch' = o.attachFlowBatch
    /\ mainBatch' = o.mainBatch
    /\ log' = o.log
    /\ ledger' = ledger \o Submitted(o.log)
    /\ call' = CallRecord("flush", <<>>, o)
    /\ accepted' = accepted \cup {message.localOpMetadata}
    /\ params' = params

\* The calls on the transport among the calls of a flushInternal.
TransportCalls(calls) == { k \in DOMAIN calls : calls[k].fn \in TransportFns }

\* shouldSend() as the batch being sent when the callback runs was given it.
SentChoices(batch) == SendChoices(batch) \ {FALSE}

\* flush() reentered while the batch of the manager where is sent, by fn.
FlushReentered(where, fn, sendA, cA, sendM, cM) ==
    \E k \in TransportCalls(
                IF where = "attachFlowBatch"
                THEN flushInternal(params, BM_popBatch(attachFlowBatch), sendA, cA).calls
                ELSE flushInternal(params, BM_popBatch(mainBatch), sendM, cM).calls ),
       size \in OpSizes,
       send \in IF fn = "submit" THEN {FALSE} ELSE BOOLEAN,
       c \in IF fn = "submit" THEN {1} ELSE CompressedSizes :
        BecomesReentered(BatchMessage(nextId + 1, size, {}),
                         flushReentered(params, Outbox, where, k, fn,
                                        BatchMessage(nextId + 1, size, {}),
                                        send, c, sendA, cA, sendM, cM))

FlushReentrant ==
    /\ nextId < MaxOps
    /\ \/ \E fn \in {"submit", "submitAttach"},
             sendA \in SentChoices(BM_popBatch(attachFlowBatch)),
             cA \in SizeChoices(BM_popBatch(attachFlowBatch)),
             sendM \in BOOLEAN, cM \in CompressedSizes :
            FlushReentered("attachFlowBatch", fn, sendA, cA, sendM, cM)
       \/ \E fn \in {"submit", "submitAttach"},
             sendA \in SendChoices(BM_popBatch(attachFlowBatch)),
             cA \in SizeChoices(BM_popBatch(attachFlowBatch)),
             sendM \in SentChoices(BM_popBatch(mainBatch)),
             cM \in SizeChoices(BM_popBatch(mainBatch)) :
            FlushReentered("mainBatch", fn, sendA, cA, sendM, cM)
    /\ nextId' = nextId + 1
    /\ UNCHANGED << attached, wire >>

NextReentry == Submit \/ SubmitAttach \/ Flush \/ FlushReentrant

SpecReentry == Init /\ [][NextReentry]_vars

\* ------------------------------------------------------------- properties
\* Reading the log.  Every call but popBatch is made inside a flushInternal,
\* which follows the popBatch of the batch it is given.
Pops == { i \in DOMAIN log : log[i].fn = "popBatch" }

\* The last index of the flushInternal that follows the popBatch at i.
SegEnd(i) ==
    IF \E j \in Pops : j > i
    THEN (CHOOSE j \in Pops : j > i /\ \A k \in Pops : k > i => j <= k) - 1
    ELSE Len(log)

\* The calls of the flushInternal that follows the popBatch at i.
Seg(i) == SubSeq(log, i + 1, SegEnd(i))

Only(calls, fns) == SelectSeq(calls, LAMBDA e : e.fn \in fns)

\* The flushInternal that follows the popBatch at i ended by compressBatch
\* throwing: only the last one of a call can have.
SegThrew(i) ==
    /\ SegEnd(i) = Len(log)
    /\ call.error.name = "BatchTooLarge"
    /\ "compressedBatchSize" \in DOMAIN call.error

\* shouldSend() was asked in the flushInternal at i and answered b.
SegShouldSend(i, b) ==
    \E k \in DOMAIN Seg(i) : Seg(i)[k] = [fn |-> "shouldSend", result |-> b]

\* The ids of the ops a message's payload is made of.
Ids(content) == [ k \in DOMAIN content |-> content[k].localOpMetadata ]

Range(f) == { f[x] : x \in DOMAIN f }

Count(seq, x) == Cardinality({ k \in DOMAIN seq : seq[k] = x })

\* The ids of the ops a call on a collaborator carries.
EventIds(e) ==
    CASE e.fn = "onSubmitMessage" -> {e.localOpMetadata}
      [] e.fn = "submitFn" -> Range(e.contents.contents.of)
      [] e.fn = "submitBatchFn" ->
            UNION { Range(e.batch[k].contents.of) : k \in DOMAIN e.batch }
      [] OTHER -> {}

Held(bm) == Range(Ids(bm.pendingBatch))

\* C1 (as claimed): onSubmitMessage is never called twice for an accepted op,
\* and has been called exactly once for it once the flush that popped its
\* batch has ended, however that flush ended.
C1_ExactlyOncePerAcceptedOp ==
    \A id \in accepted :
        /\ Count(ledger, id) <= 1
        /\ id \notin Held(attachFlowBatch) \cup Held(mainBatch) => Count(ledger, id) = 1

\* C2: in a flush() that finds both batches non-empty, every transport call
\* carrying attach ops precedes every transport call carrying main ops, and
\* every onSubmitMessage of an attach op precedes every one of a main op.
C2_AttachBeforeMain ==
    (call.fn = "flush" /\ Held(call.pre.attachFlowBatch) # {}
                       /\ Held(call.pre.mainBatch) # {})
    => \A i \in DOMAIN log, j \in DOMAIN log :
         /\ EventIds(log[i]) \cap Held(call.pre.attachFlowBatch) # {}
         /\ EventIds(log[j]) \cap Held(call.pre.mainBatch) # {}
         /\ \/ log[i].fn \in TransportFns /\ log[j].fn \in TransportFns
            \/ log[i].fn = "onSubmitMessage" /\ log[j].fn = "onSubmitMessage"
         => i < j

\* Both batches of a flush() were sent and recorded.
C2_Witness ==
    /\ call.fn = "flush"
    /\ Held(call.pre.attachFlowBatch) # {}
    /\ Held(call.pre.mainBatch) # {}
    /\ Len(Only(log, {"shouldSend"})) = 2
    /\ \A k \in DOMAIN log : log[k].fn = "shouldSend" => log[k].result
    /\ \E i \in DOMAIN log, j \in DOMAIN log :
         /\ log[i].fn \in TransportFns /\ log[j].fn \in TransportFns
         /\ EventIds(log[i]) \cap Held(call.pre.attachFlowBatch) # {}
         /\ EventIds(log[j]) \cap Held(call.pre.mainBatch) # {}
    /\ Cardinality(Range(ledger)) >= 2

\* C3: a non-empty batch flushed while shouldSend() is false causes no
\* transport call and no error, every op of the raw batch is recorded, in
\* order, and the manager no longer holds any of them (after flush(), it
\* holds nothing).
C3_DisconnectedFlush ==
    \A i \in Pops :
        SegShouldSend(i, FALSE) =>
            /\ Only(Seg(i), TransportFns) = <<>>
            /\ ~SegThrew(i)
            /\ [ k \in DOMAIN Only(Seg(i), {"onSubmitMessage"}) |->
                   Only(Seg(i), {"onSubmitMessage"})[k].localOpMetadata ]
               = Ids(log[i].batch.content)
            /\ Range(Ids(log[i].batch.content)) \cap
                  ( IF log[i].manager = "mainBatch" THEN Held(mainBatch)
                    ELSE Held(attachFlowBatch) ) = {}
            /\ call.fn = "flush" /\ call.error = NoError =>
                  ( IF log[i].manager = "mainBatch" THEN BM_length(mainBatch)
                    ELSE BM_length(attachFlowBatch) ) = 0

\* A batch of two ops was flushed while disconnected.
C3_Witness ==
    \E i \in Pops :
        /\ SegShouldSend(i, FALSE)
        /\ Len(log[i].batch.content) = 2
        /\ Len(Only(Seg(i), {"onSubmitMessage"})) = 2

\* What the ledger is given of a message, but for its wire metadata.
LedgerFields(e) ==
    [ type |-> e.type, referenceSequenceNumber |-> e.referenceSequenceNumber,
      contents |-> e.contents, localOpMetadata |-> e.localOpMetadata ]

\* The same fields of a BatchMessage as the caller created it.
RawFields(m) ==
    [ type |-> m.deserializedContent.type,
      referenceSequenceNumber |-> m.referenceSequenceNumber,
      contents |-> m.deserializedContent.contents,
      localOpMetadata |-> m.localOpMetadata ]

\* C4: what a flushInternal that runs to its end records in the ledger is
\* the raw popped batch, op for op and in order (type,
\* referenceSequenceNumber, contents, localOpMetadata), whichever batch the
\* transport was handed.
C4_LedgerFidelity ==
    \A i \in Pops :
        ~SegThrew(i) =>
            LET recorded == Only(Seg(i), {"onSubmitMessage"})
            IN [ k \in DOMAIN recorded |-> LedgerFields(recorded[k]) ]
               = [ k \in DOMAIN log[i].batch.content |->
                     RawFields(log[i].batch.content[k]) ]

\* A batch of two ops was compressed, sent and recorded.
C4_Witness ==
    \E i \in Pops :
        /\ Len(log[i].batch.content) = 2
        /\ Only(Seg(i), {"compressBatch"}) # <<>>
        /\ Only(Seg(i), {"submitBatchFn", "submitFn"}) # <<>>
        /\ Len(Only(Seg(i), {"onSubmitMessage"})) = 2

\* C5: a submit whose push fails raises BatchTooLarge, makes no call on the
\* transport or the ledger, and leaves both managers as they were.
C5_SubmitFails ==
    (call.fn = "submit" /\ ~BM_canPush(call.pre.mainBatch, call.args[1]))
    => /\ call.error = PushError(call.pre.mainBatch, call.args[1])
       /\ log = <<>>
       /\ mainBatch = call.pre.mainBatch
       /\ attachFlowBatch = call.pre.attachFlowBatch

\* A submit failed on a main batch that held an op, with attach ops pending.
C5_Witness ==
    /\ call.fn = "submit"
    /\ call.error # NoError
    /\ BM_length(mainBatch) > 0
    /\ BM_length(attachFlowBatch) > 0

\* C6: a submitAttach whose op does not fit beside the ops the attach batch
\* holds, but fits alone, flushes exactly once, and what it flushes is the
\* batch held before (handed to sendBatch and recorded in order, without
\* the op); the call returns normally and the attach batch holds exactly
\* the op.  When the op does not fit alone, BatchTooLarge is raised, the
\* attach batch is empty and the op reaches neither transport nor ledger.
C6_SubmitAttachRetry ==
    call.fn = "submitAttach" =>
      LET op == call.args[1]
          before == call.pre.attachFlowBatch
          limit == before.options.hardLimit
          recorded == Only(log, {"onSubmitMessage"})
      IN
      /\ ( before.batchContentSize + op.contents.length > limit
           /\ op.contents.length <= limit )
         => /\ Cardinality(Pops) = 1
            /\ log[1] = [ fn |-> "popBatch", manager |-> "attachFlowBatch",
                          batch |-> [ content |-> before.pendingBatch,
                                      contentSizeInBytes |-> before.batchContentSize ] ]
            /\ [ k \in DOMAIN recorded |-> recorded[k].localOpMetadata ]
               = Ids(before.pendingBatch)
            /\ Only(log, {"shouldSend"}) # <<>>
            /\ SegShouldSend(1, TRUE) =>
                 UNION { EventIds(e) : e \in Range(Only(log, TransportFns)) }
                 = Held(before)
            /\ \A k \in DOMAIN log : op.localOpMetadata \notin EventIds(log[k])
            /\ call.error = NoError
            /\ attachFlowBatch.pendingBatch = <<op>>
            /\ attachFlowBatch.batchContentSize = op.contents.length
      /\ op.contents.length > limit
         => /\ call.error.name = "BatchTooLarge"
            /\ call.error.opSize = op.contents.length
            /\ attachFlowBatch.pendingBatch = <<>>
            /\ attachFlowBatch.batchContentSize = 0
            /\ \A k \in DOMAIN log : op.localOpMetadata \notin EventIds(log[k])
            /\ Count(ledger, op.localOpMetadata) = 0

\* A submitAttach flushed two held ops, sent them, and holds the new op.
C6_Witness ==
    /\ call.fn = "submitAttach"
    /\ BM_length(call.pre.attachFlowBatch) = 2
    /\ call.pre.attachFlowBatch.batchContentSize + call.args[1].contents.length
         > call.pre.attachFlowBatch.options.hardLimit
    /\ Only(log, {"submitBatchFn", "submitFn"}) # <<>>
    /\ attachFlowBatch.pendingBatch = << call.args[1] >>

\* The batch sendBatch was handed in the flushInternal at i.
HandedToSend(i) ==
    IF Only(Seg(i), {"splitCompressedBatch"}) # <<>>
    THEN Only(Seg(i), {"splitCompressedBatch"})[1].result
    ELSE IF Only(Seg(i), {"compressBatch"}) # <<>>
    THEN Only(Seg(i), {"compressBatch"})[1].result
    ELSE log[i].batch

\* The transport calls that hand over the messages of content with the
\* metadata md(message): one submitBatchFn, or one submitFn per message and
\* one deltaManager.flush.
TransportCallsFor(content, md(_)) ==
    IF params.containerContext.hasSubmitBatchFn
    THEN << [ fn |-> "submitBatchFn",
              batch |-> [ k \in DOMAIN content |->
                            [ contents |-> content[k].contents,
                              metadata |-> md(content[k]),
                              compression |-> content[k].compression ] ] ] >>
    ELSE [ k \in DOMAIN content |->
             [ fn |-> "submitFn", type |-> "op",
               contents |-> content[k].deserializedContent,
               batch |-> TRUE, metadata |-> md(content[k]) ] ]
         \o << [ fn |-> "deltaManager.flush" ] >>

MetadataAsSubmitted(message) == message.metadata

\* The metadata the transport is to see: on the legacy path, without the
\* compressed flag.
MetadataOnWire(message) ==
    IF params.containerContext.hasSubmitBatchFn
    THEN message.metadata
    ELSE message.metadata \ {"compressed"}

\* The threshold part of C7: a batch below the threshold meets neither
\* compressor nor splitter, a batch at or above it meets the compressor.
C7_Threshold(i) ==
    IF log[i].batch.contentSizeInBytes <
          params.config.compressionOptions.minimumBatchSizeInBytes
    THEN Only(Seg(i), {"compressBatch", "splitCompressedBatch"}) = <<>>
    ELSE /\ Only(Seg(i), {"compressBatch"}) # <<>>
         /\ Only(Seg(i), {"compressBatch"})[1].batch = log[i].batch

\* C7 (as claimed): a flushed batch below the threshold meets neither
\* compressor nor splitter and the transport receives the raw batch's ops
\* unchanged and in order; a batch at or above the threshold meets the
\* compressor.
C7_BelowThresholdUnchanged ==
    \A i \in Pops :
        /\ C7_Threshold(i)
        /\ ( log[i].batch.contentSizeInBytes <
                params.config.compressionOptions.minimumBatchSizeInBytes
             /\ SegShouldSend(i, TRUE) )
           => Only(Seg(i), TransportFns)
              = TransportCallsFor(log[i].batch.content, MetadataAsSubmitted)

\* C7 (amended): as claimed, but on the legacy path the ops reach the
\* transport without the compressed flag in their metadata.
C7_BelowThresholdUncompressed ==
    \A i \in Pops :
        /\ C7_Threshold(i)
        /\ ( log[i].batch.contentSizeInBytes <
                params.config.compressionOptions.minimumBatchSizeInBytes
             /\ SegShouldSend(i, TRUE) )
           => Only(Seg(i), TransportFns)
              = TransportCallsFor(log[i].batch.content, MetadataOnWire)

\* With a finite threshold, a batch of two ops below it, one of them
\* flagged compressed, was sent on the legacy path.
C7_Witness ==
    \E i \in Pops :
        /\ isCompressionEnabled(params)
        /\ ~params.containerContext.hasSubmitBatchFn
        /\ log[i].batch.contentSizeInBytes <
              params.config.compressionOptions.minimumBatchSizeInBytes
        /\ Len(log[i].batch.content) = 2
        /\ \E k \in 1..2 : "compressed" \in log[i].batch.content[k].metadata
        /\ Len(Only(Seg(i), {"submitFn"})) = 2

\* The compressor's output in the flushInternal at i exceeds the ceiling.
SegCompressedTooLarge(i) ==
    /\ Only(Seg(i), {"compressBatch"}) # <<>>
    /\ Only(Seg(i), {"compressBatch"})[1].result.contentSizeInBytes
          > params.config.maxBatchSizeInBytes

\* C8: when the compressor's output exceeds maxBatchSizeInBytes and
\* chunking is disabled, the call raises BatchTooLarge carrying the
\* compressed size, and nothing of the batch reaches the transport.
C8_CompressionOverflow ==
    \A i \in Pops :
        ( SegCompressedTooLarge(i) /\ ~params.splitter.isBatchChunkingEnabled )
        => /\ call.error.name = "BatchTooLarge"
           /\ "compressedBatchSize" \in DOMAIN call.error
           /\ call.error.compressedBatchSize
                = Only(Seg(i), {"compressBatch"})[1].result.contentSizeInBytes
           /\ call.error.batchSize = log[i].batch.contentSizeInBytes
           /\ SegEnd(i) = Len(log)
           /\ Only(Seg(i), TransportFns \cup {"shouldSend", "splitCompressedBatch"}) = <<>>

\* A flush() of a main batch of two ops ended that way.
C8_Witness ==
    /\ call.fn = "flush"
    /\ call.error.name = "BatchTooLarge"
    /\ \E i \in Pops :
         /\ log[i].manager = "mainBatch"
         /\ Len(log[i].batch.content) = 2
         /\ SegCompressedTooLarge(i)

\* C9: when the compressor's output exceeds maxBatchSizeInBytes and
\* chunking is enabled, the call ends without error, the transport is
\* handed the splitter's output and the ledger the raw ops; when the
\* compressor's output is within maxBatchSizeInBytes the splitter is not
\* called and the transport is handed the compressor's output.
C9_Splitting ==
    \A i \in Pops :
        Only(Seg(i), {"compressBatch"}) # <<>> =>
          LET compressedBatch == Only(Seg(i), {"compressBatch"})[1].result
              splits == Only(Seg(i), {"splitCompressedBatch"})
          IN
          /\ ( SegCompressedTooLarge(i) /\ params.splitter.isBatchChunkingEnabled )
             => /\ call.error = NoError
                /\ Len(splits) = 1
                /\ splits[1].batch = compressedBatch
                /\ SegShouldSend(i, TRUE) =>
                     Only(Seg(i), TransportFns)
                       = TransportCallsFor(splits[1].result.content, MetadataOnWire)
                /\ [ k \in DOMAIN Only(Seg(i), {"onSubmitMessage"}) |->
                       LedgerFields(Only(Seg(i), {"onSubmitMessage"})[k]) ]
                   = [ k \in DOMAIN log[i].batch.content |->
                         RawFields(log[i].batch.content[k]) ]
          /\ ~SegCompressedTooLarge(i)
             => /\ splits = <<>>
                /\ SegShouldSend(i, TRUE) =>
                     Only(Seg(i), TransportFns)
                       = TransportCallsFor(compressedBatch.content, MetadataOnWire)

\* A batch of two ops was compressed, split and sent.
C9_Witness ==
    \E i \in Pops :
        /\ Len(log[i].batch.content) = 2
        /\ SegCompressedTooLarge(i)
        /\ Only(Seg(i), {"splitCompressedBatch"}) # <<>>
        /\ SegShouldSend(i, TRUE)
        /\ Only(Seg(i), {"submitBatchFn", "submitFn"}) # <<>>

\* C10: on the legacy path each message of a sent batch reaches submitFn,
\* one call per message in batch order, with the batch flag and without
\* compressed in its metadata, followed by exactly one deltaManager.flush,
\* and submitBatchFn is never called; on the modern path a sent batch is one
\* submitBatchFn call and submitFn and deltaManager.flush are never called.
C10_TransportPaths ==
    /\ \A k \in DOMAIN log :
         IF params.containerContext.hasSubmitBatchFn
         THEN log[k].fn \notin {"submitFn", "deltaManager.flush"}
         ELSE log[k].fn # "submitBatchFn"
    /\ \A i \in Pops :
         LET t == Only(Seg(i), TransportFns)
             handed == HandedToSend(i).content
         IN IF ~SegShouldSend(i, TRUE) THEN t = <<>>
            ELSE IF params.containerContext.hasSubmitBatchFn
            THEN /\ Len(t) = 1
                 /\ Len(t[1].batch) = Len(handed)
                 /\ \A k \in DOMAIN handed : t[1].batch[k].contents = handed[k].contents
            ELSE /\ Len(t) = Len(handed) + 1
                 /\ t[Len(t)].fn = "deltaManager.flush"
                 /\ \A k \in DOMAIN handed :
                      /\ t[k].fn = "submitFn"
                      /\ t[k].contents = handed[k].deserializedContent
                      /\ t[k].batch = TRUE
                      /\ "compressed" \notin t[k].metadata

\* A batch of two ops, the second flagged compressed, was sent on the
\* legacy path.
C10_Witness ==
    \E i \in Pops :
        /\ ~params.containerContext.hasSubmitBatchFn
        /\ Len(log[i].batch.content) = 2
        /\ "compressed" \in log[i].batch.content[2].metadata
        /\ Len(Only(Seg(i), {"submitFn"})) = 2
        /\ Len(Only(Seg(i), {"deltaManager.flush"})) = 1

\* The second case of C6 happens: an op too large on its own was refused
\* after the held ops were flushed.
C6_TooLargeAloneReached ==
    /\ call.fn = "submitAttach"
    /\ call.args[1].contents.length > call.pre.attachFlowBatch.options.hardLimit
    /\ BM_length(call.pre.attachFlowBatch) > 0
    /\ Only(log, {"onSubmitMessage"}) # <<>>

\* The popBatch of the last flushInternal of the call.
LastPop == CHOOSE i \in Pops : \A j \in Pops : j <= i

\* flush() ended by the flushInternal of the attach batch throwing.
FlushThrewInAttach ==
    /\ call.fn = "flush"
    /\ call.error # NoError
    /\ log[LastPop].manager = "attachFlowBatch"

\* The IBatch that holds the ops of bm in push order, with their aggregate size.
WholeBatch(bm) ==
    [ content |-> bm.pendingBatch, contentSizeInBytes |-> SumLengths(bm.pendingBatch) ]

\* The ops are held in the order they were pushed (ids are issued in call order).
InPushOrder(content) ==
    \A j \in DOMAIN content, k \in DOMAIN content :
        j < k => content[j].localOpMetadata < content[k].localOpMetadata

\* C11: each BatchManager's contentSizeInBytes is the sum of the sizes of the
\* ops it holds, in push order; every popBatch returns all the held ops in
\* that order with that aggregate size and leaves the manager with length 0
\* and size 0; the popBatch of an empty manager returns an empty batch whose
\* flush makes no call on the transport and none on the ledger.
C11_BatchAccounting ==
    /\ \A bm \in {attachFlowBatch, mainBatch} :
         /\ BM_contentSizeInBytes(bm) = SumLengths(bm.pendingBatch)
         /\ InPushOrder(bm.pendingBatch)
    /\ \A i \in Pops :
         /\ log[i].batch.contentSizeInBytes = SumLengths(log[i].batch.content)
         /\ InPushOrder(log[i].batch.content)
    /\ log # <<>> => log[1].fn = "popBatch"
    /\ call.fn = "flush" =>
         /\ BM_length(attachFlowBatch) = 0 /\ BM_contentSizeInBytes(attachFlowBatch) = 0
         /\ IF BM_length(call.pre.attachFlowBatch) = 0
            THEN \A i \in Pops : log[i].manager # "attachFlowBatch"
            ELSE log[1] = [ fn |-> "popBatch", manager |-> "attachFlowBatch",
                            batch |-> WholeBatch(call.pre.attachFlowBatch) ]
         /\ IF FlushThrewInAttach
            THEN mainBatch = call.pre.mainBatch
            ELSE /\ BM_length(mainBatch) = 0 /\ BM_contentSizeInBytes(mainBatch) = 0
                 /\ IF BM_length(call.pre.mainBatch) = 0
                    THEN \A i \in Pops : log[i].manager # "mainBatch"
                    ELSE log[LastPop] = [ fn |-> "popBatch", manager |-> "mainBatch",
                                          batch |-> WholeBatch(call.pre.mainBatch) ]
         /\ ( BM_length(call.pre.attachFlowBatch) = 0 /\ BM_length(call.pre.mainBatch) = 0 )
            => log = <<>> /\ call.error = NoError

\* A flush() pops an empty attach manager and a main manager holding two ops.
C11_Witness ==
    /\ call.fn = "flush"
    /\ BM_length(call.pre.attachFlowBatch) = 0
    /\ BM_length(call.pre.mainBatch) = 2
    /\ log[1].fn = "popBatch" /\ log[1].manager = "mainBatch"
    /\ Len(log[1].batch.content) = 2
    /\ BM_length(mainBatch) = 0

\* ------------------------------------------------- BatchManager on its own
\* A BatchManager given any sequence of push and popBatch calls.  Its options
\* are of the kinds the Outbox constructor passes: a hard limit that is a
\* small ceiling, one that is twice the soft limit, or none; the soft limit
\* of the attach flow, or none.
PushHardLimits == {2, 2 * defaultAttachFlowSoftLimitInBytes, Infinity}
PushSoftLimits == {defaultAttachFlowSoftLimitInBytes, Infinity}
\* contents.length of the ops pushed: the small ones and one soft limit long.
PushOpSizes == OpSizes \cup {defaultAttachFlowSoftLimitInBytes}

InitPush ==
    /\ params \in { [ options |-> [hardLimit |-> h, softLimit |-> s] ] :
                    h \in PushHardLimits, s \in PushSoftLimits }
    /\ attachFlowBatch = BatchManager(params.options)
    /\ mainBatch = BatchManager(params.options)
    /\ log = <<>>
    /\ call = [ fn |-> "constructor", args |-> <<>>, result |-> TRUE,
                pre |-> attachFlowBatch ]
    /\ ledger = <<>>
    /\ accepted = {}
    /\ attached = {}
    /\ wire = <<>>
    /\ nextId = 0

\* attachFlowBatch.push(message)
Push ==
    /\ nextId < MaxOps
    /\ \E size \in PushOpSizes :
         /\ attachFlowBatch' = BM_push(attachFlowBatch, BatchMessage(nextId + 1, size, {}))
         /\ call' = [ fn |-> "push", args |-> << BatchMessage(nextId + 1, size, {}) >>,
                      result |-> BM_canPush(attachFlowBatch,
                                            BatchMessage(nextId + 1, size, {})),
                      pre |-> attachFlowBatch ]
    /\ nextId' = nextId + 1
    /\ UNCHANGED << params, mainBatch, log, ledger, accepted, attached, wire >>

\* attachFlowBatch.popBatch()
PopBatch ==
    /\ attachFlowBatch' = BM_afterPop(attachFlowBatch)
    /\ call' = [ fn |-> "popBatch", args |-> <<>>,
                 result |-> BM_popBatch(attachFlowBatch), pre |-> attachFlowBatch ]
    /\ UNCHANGED << params, mainBatch, log, ledger, accepted, attached, wire, nextId >>

NextPush == Push \/ PopBatch

SpecPush == InitPush /\ [][NextPush]_vars

C12_FailedPushReached ==
    /\ call.fn = "push"
    /\ call.result = FALSE
    /\ BM_contentSizeInBytes(attachFlowBatch) < attachFlowBatch.options.softLimit

\* The ids of the ops the transport calls of calls carry.
CarriedIds(calls) ==
    UNION { EventIds(calls[k]) : k \in { j \in DOMAIN calls : calls[j].fn \in TransportFns } }

\* submitAttach(op) has returned normally: the main batch is as it was and
\* none of its ops met the transport or the ledger; either op is held, last
\* in the attach batch, whose size is below the threshold, or the last
\* popBatch of the call returned the whole attach batch, at or above the
\* threshold and ending with op, which was processed, handed to the
\* transport if shouldSend() said so, and recorded, leaving the batch empty.
C13_EagerFlush ==
    LET op == call.args[1]
        min == params.config.compressionOptions.minimumBatchSizeInBytes
    IN /\ mainBatch = call.pre.mainBatch
       /\ \A k \in DOMAIN log : EventIds(log[k]) \cap Held(call.pre.mainBatch) = {}
       /\ IF op.localOpMetadata \in Held(attachFlowBatch)
          THEN /\ attachFlowBatch.pendingBatch[BM_length(attachFlowBatch)] = op
               /\ BM_contentSizeInBytes(attachFlowBatch) < min
               /\ Cardinality(Pops) <= 1
          ELSE /\ Pops # {}
               /\ log[LastPop].manager = "attachFlowBatch"
               /\ log[LastPop].batch.content =
                    IF Cardinality(Pops) = 1
                    THEN Append(call.pre.attachFlowBatch.pendingBatch, op)
                    ELSE << op >>
               /\ log[LastPop].batch.contentSizeInBytes >= min
               /\ Submitted(Seg(LastPop)) = Ids(log[LastPop].batch.content)
               /\ SegShouldSend(LastPop, TRUE) =>
                    CarriedIds(Seg(LastPop)) = Range(Ids(log[LastPop].batch.content))
               /\ SegShouldSend(LastPop, FALSE) => CarriedIds(Seg(LastPop)) = {}
               /\ BM_length(attachFlowBatch) = 0

\* C13 (as claimed): after a submitAttach that returns without error the
\* size of the attach batch is strictly below minimumBatchSizeInBytes, a
\* batch brought to or above it having been flushed whole, main untouched.
C13_BelowThresholdOnReturn ==
    (call.fn = "submitAttach" /\ call.error = NoError)
    => /\ BM_contentSizeInBytes(attachFlowBatch)
            < params.config.compressionOptions.minimumBatchSizeInBytes
       /\ C13_EagerFlush

\* C13 (amended): after a submitAttach that returns without error the attach
\* batch is empty or its size is strictly below minimumBatchSizeInBytes, a
\* batch brought to or above it having been flushed whole, main untouched.
C13_EmptyOrBelowThresholdOnReturn ==
    (call.fn = "submitAttach" /\ call.error = NoError)
    => /\ \/ BM_length(attachFlowBatch) = 0
          \/ BM_contentSizeInBytes(attachFlowBatch)
               < params.config.compressionOptions.minimumBatchSizeInBytes
       /\ C13_EagerFlush

\* A submitAttach whose op brought a held op and itself to the threshold:
\* both were flushed and sent while the main batch kept its op.
C13_Witness ==
    /\ call.fn = "submitAttach" /\ call.error = NoError
    /\ BM_length(call.pre.attachFlowBatch) = 1
    /\ BM_length(call.pre.mainBatch) = 1
    /\ Cardinality(Pops) = 1
    /\ Len(log[LastPop].batch.content) = 2
    /\ SegShouldSend(LastPop, TRUE)
    /\ BM_length(attachFlowBatch) = 0
    /\ BM_length(mainBatch) = 1

\* C14 (as claimed): with compression disabled, a submit raises BatchTooLarge
\* only for an op whose own size exceeds maxBatchSizeInBytes.
C14_SubmitRejectsOnlyOversizedOp ==
    (call.fn = "submit" /\ ~isCompressionEnabled(params) /\ call.error # NoError)
    => ContentLength(call.args[1]) > params.config.maxBatchSizeInBytes

\* C14 (amended): with compression disabled, a submit raises BatchTooLarge
\* exactly when the size of the ops the main batch holds plus the op's size
\* exceeds maxBatchSizeInBytes: always for an op larger than the ceiling,
\* and for an op that fits on its own only when the main batch holds ops.
\* The error names the ceiling as the limit and the batch is left as it was.
C14_SubmitRejectsOverflowingBatch ==
    (call.fn = "submit" /\ ~isCompressionEnabled(params))
    => LET size == ContentLength(call.args[1])
           max == params.config.maxBatchSizeInBytes
       IN /\ call.error # NoError
               <=> SumLengths(call.pre.mainBatch.pendingBatch) + size > max
          /\ size > max => call.error # NoError
          /\ (size <= max /\ call.error # NoError) => BM_length(call.pre.mainBatch) > 0
          /\ call.error # NoError =>
               /\ call.error.name = "BatchTooLarge"
               /\ call.error.limit = max
               /\ call.error.opSize = size
               /\ mainBatch = call.pre.mainBatch
          /\ call.error = NoError =>
               mainBatch.pendingBatch = Append(call.pre.mainBatch.pendingBatch, call.args[1])

\* With compression disabled, a submit of an op that fits on its own was
\* rejected because the main batch held two ops.
C14_Witness ==
    /\ call.fn = "submit"
    /\ ~isCompressionEnabled(params)
    /\ call.error # NoError
    /\ ContentLength(call.args[1]) <= params.config.maxBatchSizeInBytes
    /\ BM_length(call.pre.mainBatch) = 2

\* The ids of the ops of a class: given to submitAttach, or to submit.
ClassIds(manager) ==
    IF manager = "attachFlowBatch" THEN attached ELSE (1..nextId) \ attached

Increasing(seq) == \A j \in DOMAIN seq, k \in DOMAIN seq : j < k => seq[j] < seq[k]

\* The ids of the ops the transport was handed, one message after another.
WireIds == [ k \in DOMAIN wire |-> wire[k][1] ]

\* C15: without compression, the ops of one class (given to submit, or given
\* to submitAttach) reach the ledger and the transport in the order they were
\* submitted (ids are issued in call order) and never twice; every accepted
\* op that a flush has popped is in the ledger, every op a flush transmits is
\* one it records, and a flush that shouldSend() allows hands the transport
\* every op of the batch, each in a message of its own.
C15_OrderWithinClass ==
    /\ \A k \in DOMAIN wire : Len(wire[k]) = 1
    /\ \A manager \in {"attachFlowBatch", "mainBatch"} :
         /\ Increasing(SelectSeq(ledger, LAMBDA id : id \in ClassIds(manager)))
         /\ Increasing(SelectSeq(WireIds, LAMBDA id : id \in ClassIds(manager)))
    /\ Range(ledger) = accepted \ (Held(attachFlowBatch) \cup Held(mainBatch))
    /\ Range(WireIds) \subseteq Range(ledger)
    /\ Held(attachFlowBatch) \subseteq attached
    /\ Held(mainBatch) \cap attached = {}
    /\ \A i \in Pops :
         /\ Range(Ids(log[i].batch.content)) \subseteq ClassIds(log[i].manager)
         /\ Submitted(Seg(i)) = Ids(log[i].batch.content)
         /\ Transmitted(Seg(i)) =
              IF SegShouldSend(i, TRUE)
              THEN [ k \in DOMAIN log[i].batch.content |->
                       << log[i].batch.content[k].localOpMetadata >> ]
              ELSE <<>>

\* Three ops submitted main, attach, main and flushed together: the attach op
\* went first and the main ops followed in their order, on wire and ledger.
C15_Witness ==
    /\ attached = {2}
    /\ ledger = << 2, 1, 3 >>
    /\ WireIds = << 2, 1, 3 >>
    /\ call.fn = "flush"

\* The total length of the payloads the submitFn and submitBatchFn calls of
\* calls hand to the transport.
RECURSIVE WireSize(_)
WireSize(calls) ==
    IF calls = <<>> THEN 0
    ELSE IF Head(calls).fn = "submitFn"
    THEN Head(calls).contents.contents.length + WireSize(Tail(calls))
    ELSE IF Head(calls).fn = "submitBatchFn"
    THEN SumLengths(Head(calls).batch) + WireSize(Tail(calls))
    ELSE WireSize(Tail(calls))

\* C17 (as claimed): what one sendBatch hands to the transport (one
\* submitBatchFn call, or its submitFn calls) is never larger in total than
\* maxBatchSizeInBytes, in every configuration.
C17_WireCeiling ==
    \A i \in Pops : WireSize(Seg(i)) <= params.config.maxBatchSizeInBytes

\* C18: a flush() that raises BatchTooLarge while processing the attach batch
\* leaves the main batch as it was, with none of its ops handed to the
\* transport or recorded, and the flush() that follows records them (and
\* sends them when shouldSend() allows); a flush() that returns normally
\* leaves the Outbox empty.
C18_FlushStep ==
    /\ (call'.fn = "flush" /\ FlushThrewInAttach') =>
         /\ mainBatch' = call'.pre.mainBatch
         /\ \A k \in DOMAIN log' : EventIds(log'[k]) \cap Held(mainBatch') = {}
    /\ (call'.fn = "flush" /\ call'.error = NoError) =>
         isEmpty([attachFlowBatch |-> attachFlowBatch', mainBatch |-> mainBatch'])
    /\ (FlushThrewInAttach /\ call'.fn = "flush") =>
         /\ Held(mainBatch) \subseteq Range(ledger')
         /\ \A i \in DOMAIN log' :
              log'[i] = [fn |-> "shouldSend", result |-> TRUE]
              => Held(mainBatch) \subseteq CarriedIds(log')

C18_FlushFailureSparesMain == [][C18_FlushStep]_vars

\* C18, its first case: no flush() raises while processing the attach batch.
\* Every submitAttach leaves the attach batch empty or below the threshold
\* (line 101), and compressBatch returns such a batch as it is (line 124).
C18_FlushNeverRaisesInAttach == ~FlushThrewInAttach

\* C18, its second case: a flush() that returns normally leaves both
\* managers empty.
C18_EmptyAfterFlush ==
    (call.fn = "flush" /\ call.error = NoError) => isEmpty(Outbox)

\* A flush() of two non-empty managers has returned normally.
C18_EmptyAfterFlushReached ==
    /\ call.fn = "flush" /\ call.error = NoError
    /\ BM_length(call.pre.attachFlowBatch) > 0
    /\ BM_length(call.pre.mainBatch) > 0
    /\ isEmpty(Outbox)

\* C19 (as claimed): what persistBatch records as the metadata of an op is
\* the metadata the op was submitted with, whatever sendBatch did before.
C19_LedgerMetadataAsSubmitted ==
    \A i \in Pops :
        ~SegThrew(i) =>
          \A k \in DOMAIN log[i].batch.content :
              Only(Seg(i), {"onSubmitMessage"})[k].metadata
                = log[i].batch.content[k].metadata

\* Reading the log of a flush() that was reentered.
Reentered == \E r \in DOMAIN log : log[r].fn = "reentry"

ReentryAt == CHOOSE r \in DOMAIN log : log[r].fn = "reentry"

\* The id of the op the callback submitted.
ReentrantId == log[ReentryAt].message.localOpMetadata

\* The popBatch of the batch that was being sent when the callback ran.
OuterPop ==
    CHOOSE i \in Pops : i < ReentryAt /\ \A j \in Pops : j < ReentryAt => j <= i

OuterIds == Range(Ids(log[OuterPop].batch.content))

\* The calls of the kinds fns that carry one of the ops ids.
Carrying(ids, fns) ==
    { j \in DOMAIN log : log[j].fn \in fns /\ EventIds(log[j]) \cap ids # {} }

\* C16, first part: the op a callback submits is not handed to the transport
\* between two transport calls of the batch being sent, nor recorded between
\* two onSubmitMessage calls of that batch.
C16_SentApart ==
    Reentered =>
      \A fns \in { {"submitFn", "submitBatchFn"}, {"onSubmitMessage"} } :
        \A j \in Carrying({ReentrantId}, fns) :
            ~ \E i \in Carrying(OuterIds, fns), l \in Carrying(OuterIds, fns) :
                  i < j /\ j < l

\* C16, last part (enableOpReentryCheck not set): when the reentered flush()
\* ends, the op is held by a manager, or it was sent and recorded once, by a
\* flushInternal that followed the one of the batch that was being sent.
C16_HeldForLaterFlush ==
    Reentered =>
      \/ ReentrantId \in Held(attachFlowBatch) \cup Held(mainBatch)
      \/ /\ Count(ledger, ReentrantId) = 1
         /\ \A j \in Carrying({ReentrantId}, {"submitFn", "submitBatchFn", "onSubmitMessage"}),
               i \in Carrying(OuterIds, {"submitFn", "submitBatchFn", "onSubmitMessage"}) :
                i < j

\* C16 (as claimed): an op submitted from inside a transport callback during
\* a flush is never interleaved into the batch being sent or recorded, and
\* (the reentry check not set) is held and then sent and recorded exactly
\* once by a later flush.
C16_ReentryKeptApart == C16_SentApart /\ C16_HeldForLaterFlush

=============================================================================
